---- MODULE Spec2Model ----
(***************************************************************************)
(* A model of the CHIP-8 emulator of src/src/main.cpp: the Emulator object *)
(* (Cpu, Memory, Keyboard, Screen data, driver status), main()'s start-up  *)
(* sequence and Emulator::Run's loop, one opcode handler per operator.     *)
(***************************************************************************)
EXTENDS Integers, Sequences, FiniteSets, TLC

(***************************************************************************)
(* Bounds of the model (not program constants).                            *)
(***************************************************************************)
\* Iterations of Run's loop.
MaxTicks == 18

(***************************************************************************)
(* Program constants.                                                      *)
(***************************************************************************)
FONT_ADDRESS_OFFSET == 80
DISPLAY_WIDTH == 64
DISPLAY_HEIGHT == 32
STARTING_PC == 512
NUMBER_OF_V_REGISTERS == 16
STACK_SIZE == 16
MEMORY_SIZE == 4096
KEYBOARD_SIZE == 16
CARRY_FLAG == 15
EXIT_SUCCESS == 0
EXIT_FAILURE == 1
\* std::exit(-1): the status the parent sees is -1 & 0377.
EXIT_MINUS_ONE == 255
\* assert() failing, or an uncaught exception: abort(), SIGABRT.
EXIT_ABORT == 134
\* One outcome of undefined behaviour: the process is killed (SIGSEGV).
EXIT_SEGV == 139

\* SDL key symbols (SDLK_x is the ASCII code of x) and event types.
SDLK_ESCAPE == 27
SDLK_0 == 48
SDLK_1 == 49
SDLK_9 == 57
SDLK_a == 97
SDLK_f == 102
SDLK_q == 113
SDLK_z == 122

\* The key symbols the host is modelled to deliver: a digit, a letter of the
\* keypad, a key outside the keypad, and a quit key.
KeySyms == {SDLK_1, SDLK_f, SDLK_z, SDLK_q}
Events == [type : {"SDL_KEYDOWN", "SDL_KEYUP"}, sym : KeySyms]
            \cup {[type |-> "SDL_QUIT", sym |-> 0]}

\* The outcomes modelled for std::rand() % 0x100 and for a byte read outside
\* an array (undefined behaviour).
RandBytes == {0, 1, 15, 127, 128, 254, 255}
UndefBytes == {0, 255}

NoInstr == 0 - 1

(***************************************************************************)
(* Bit manipulation: the macros of main.cpp and the C operators they use.  *)
(***************************************************************************)
RECURSIVE BitAnd(_, _)
BitAnd(a, b) ==
    IF a = 0 \/ b = 0 THEN 0
    ELSE (a % 2) * (b % 2) + 2 * BitAnd(a \div 2, b \div 2)

RECURSIVE BitOr(_, _)
BitOr(a, b) ==
    IF a = 0 THEN b
    ELSE IF b = 0 THEN a
    ELSE (IF a % 2 = 1 \/ b % 2 = 1 THEN 1 ELSE 0) + 2 * BitOr(a \div 2, b \div 2)

RECURSIVE BitXor(_, _)
BitXor(a, b) ==
    IF a = 0 THEN b
    ELSE IF b = 0 THEN a
    ELSE ((a + b) % 2) + 2 * BitXor(a \div 2, b \div 2)

PACK16(msb, lsb) == BitOr((msb * 256) % 65536, lsb)
FIRST_NIBBLE(data) == BitAnd(data \div 4096, 15)
SECOND_NIBBLE(data) == BitAnd(data \div 256, 15)
THIRD_NIBBLE(data) == BitAnd(data \div 16, 15)
FOURTH_NIBBLE(data) == BitAnd(data, 15)
LSB(data) == BitAnd(data, 255)
TWELVE(data) == BitAnd(data, 4095)

\* The font table, graphics::fonts::DEFAULT.
DEFAULT ==
    << 240, 144, 144, 144, 240,
       32, 96, 32, 32, 112,
       240, 16, 240, 128, 240,
       240, 16, 240, 16, 240,
       144, 144, 240, 16, 16,
       240, 128, 240, 16, 240,
       240, 128, 240, 144, 240,
       240, 16, 32, 64, 64,
       240, 144, 240, 144, 240,
       240, 144, 240, 16, 240,
       240, 144, 240, 144, 144,
       224, 144, 224, 144, 224,
       240, 128, 128, 128, 240,
       224, 144, 144, 144, 224,
       240, 128, 240, 128, 240,
       240, 128, 240, 128, 128 >>

(***************************************************************************)
(* ROM files: the input of main().  A ROM is written as its 16-bit words   *)
(* and read as the bytes of the file (big-endian).                         *)
(***************************************************************************)
RomBytes(words) ==
    [k \in 1..(2 * Len(words)) |->
        IF k % 2 = 1 THEN words[(k + 1) \div 2] \div 256
                     ELSE words[k \div 2] % 256]

\* Cx FF; Cy FF; 8xy<op>: two random registers and one arithmetic instruction.
AluRom(x, y, op) ==
    << 49407 + 256 * x, 49407 + 256 * y, 32768 + 256 * x + 16 * y + op >>

RegPairs == {<<0, 1>>, <<2, 2>>, <<3, 15>>}

AluRoms == {AluRom(p[1], p[2], op) : p \in RegPairs, op \in {4, 5}}

\* CF FF; C0 FF; 8F0<op>: the arithmetic instructions with VF as destination.
FlagDestinationRoms == {AluRom(CARRY_FLAG, 0, op) : op \in {4, 5, 7}}

\* 6011 6122 6233 A300 F155 F055: store V0..V1, then V0 alone.
StoreRom == << 24593, 24866, 25139, 41728, 61781, 61525 >>
\* 6233 A200 F165 F065: load V0..V1, then V0 alone, from the ROM's own bytes.
LoadRomWords == << 25139, 41472, 61797, 61541 >>
\* Words outside the dispatch table: 0123, 5011, 9002, 8008, E000, F0FF.
BadRoms == {<<291>>, <<20497>>, <<36866>>, <<32776>>, <<57344>>, <<61695>>}
\* 2200: a subroutine that calls itself.
RecurseRom == << 8704 >>
\* 2202 2204 00EE: nested calls and returns, one return too many.
CallRetRom == << 8706, 8708, 238 >>
\* AFFF F255: store across the end of memory.  AFFF D002: sprite across it.
\* 1FFF: fetch across it.
EdgeRoms == {<<45055, 62037>>, <<45055, 53250>>, <<8191>>}
\* F30A 7301: wait for a key, then add.
KeyRom == << 62218, 29441 >>
\* A050 D005 D005 D005 A055 D005 D005: the glyph 0 three times at (0, 0),
\* then the glyph 1 twice over it.
DrawTwiceRom == << 41040, 53253, 53253, 53253, 41045, 53253, 53253 >>
\* C0FF C1FF A050 D015 D015 D010: the glyph 0 twice at a random place, then
\* a sprite of no rows.
ClipDrawRom == << 49407, 49663, 41040, 53269, 53269, 53264 >>
\* AFFF 6001 F01E: add to an index register at its 12-bit maximum.
\* C0FF F029: the glyph address of a random value.
IndexRoms == {<<45055, 24577, 61470>>, <<49407, 61481>>}
\* 60FF BFFF: the offset jump with the largest base and offset.
JumpRom == << 24831, 49151 >>
\* C0FF A300 F033 and 609C A300 F033: the digits of a random value and of 156.
BcdRoms == {<<49407, 41728, 61491>>, <<24732, 41728, 61491>>}
\* 6005 7003 3008 F0FF: load, add, skip the word outside the dispatch table.
SkipRom == << 24581, 28675, 12296, 61695 >>
\* 60FF E09E: ask for a key that the keypad does not have.
\* 6001 E0A1 E09E: ask for the key 1, not pressed and pressed.
KeyQueryRoms == {<<24831, 57502>>, <<24577, 57505, 57502>>}
\* A050 D005 00E0 F00A: draw the glyph 0, clear the screen, wait for a key.
ClearRom == << 41040, 53253, 224, 61450 >>
\* 6003 F015 6102 F118 F20A 7001: set both timers, wait for a key, go on.
TimerRom == << 24579, 61461, 24834, 61720, 61962, 28673 >>

RomWords ==
    AluRoms \cup FlagDestinationRoms \cup BadRoms \cup EdgeRoms \cup IndexRoms
        \cup BcdRoms \cup KeyQueryRoms
        \cup {StoreRom, LoadRomWords, RecurseRom, CallRetRom, KeyRom, TimerRom,
              DrawTwiceRom, ClipDrawRom, JumpRom, SkipRom, ClearRom}

\* Files as long as the memory above STARTING_PC allows, and one byte longer.
\* Their first word is 0000.
BigSizes == {MEMORY_SIZE - STARTING_PC - 1, MEMORY_SIZE - STARTING_PC}
BigRom(n) == [k \in 1..n |-> IF k <= 2 THEN 0 ELSE (k % 255) + 1]

Roms == {RomBytes(w) : w \in RomWords} \cup {BigRom(n) : n \in BigSizes}

VARIABLES
    cpu,                     \* system::Cpu
    memory,                  \* system::Memory::data
    keyboard,                \* system::Keyboard::keyboard
    screen,                  \* display::Screen::data
    shouldRedraw,            \* Emulator::shouldRedraw
    destinationKeyRegister,  \* Emulator::destinationKeyRegister ({} is nullopt)
    currentStatuts,          \* Emulator::currentStatuts
    process,                 \* the process: alive, or its exit status
    pc,                      \* the position of main() / Run()
    ticks,                   \* iterations of Run's loop begun so far
    instr,                   \* the word fetched in this tick, or NoInstr
    probe,                   \* what the tick's accesses were (observation)
    hist                     \* the last two executed instructions (observation)

vars == << cpu, memory, keyboard, screen, shouldRedraw, destinationKeyRegister,
           currentStatuts, process, pc, ticks, instr, probe, hist >>

\* The highest memory address and stack slot accessed in the tick, whether an
\* the pixels (column, row) read or drawn by the tick's instruction,
\* whether an array was indexed outside its bounds, and whether
\* Screen::Update ran.
NoProbe ==
    [maxAddr |-> -1, maxSlot |-> -1, pixels |-> {}, ub |-> FALSE,
     presented |-> FALSE]

Alive == [alive |-> TRUE, code |-> 0]
Exited(code) == [alive |-> FALSE, code |-> code]

Init ==
    /\ cpu = [PC |-> STARTING_PC, SP |-> 0, I |-> 0, delayTimer |-> 0,
              soundTimer |-> 0,
              V |-> [r \in 0..(NUMBER_OF_V_REGISTERS - 1) |-> 0],
              stack |-> [s \in 0..(STACK_SIZE - 1) |-> 0]]
    /\ memory = [a \in 0..(MEMORY_SIZE - 1) |-> 0]
    /\ keyboard = [k \in 0..(KEYBOARD_SIZE - 1) |-> FALSE]
    /\ screen = [p \in 0..(DISPLAY_WIDTH * DISPLAY_HEIGHT - 1) |-> FALSE]
    /\ shouldRedraw = FALSE
    /\ destinationKeyRegister = {}
    /\ currentStatuts = "RUNNING"
    /\ process = Alive
    /\ pc = "LoadFont"
    /\ ticks = 0
    /\ instr = NoInstr
    /\ probe = NoProbe
    /\ hist = << >>

(***************************************************************************)
(* Memory                                                                  *)
(***************************************************************************)
\* The capacity check refusing only what does not fit.
WriteBytesThrowsPastEnd(input, offset) == Len(input) + offset > MEMORY_SIZE

\* Memory::WriteBytes: the capacity check; TRUE when the write is refused.
WriteBytesThrows(input, offset) == Len(input) + offset >= MEMORY_SIZE

\* Memory::WriteBytes past its check: std::copy_n.
WriteBytes(data, input, offset) ==
    [a \in 0..(MEMORY_SIZE - 1) |->
        IF a >= offset /\ a < offset + Len(input) THEN input[a - offset + 1]
        ELSE data[a]]

\* main(): emulator.LoadFont(DEFAULT).  An exception leaves main(): abort.
LoadFont ==
    /\ pc = "LoadFont"
    /\ process.alive
    /\ IF WriteBytesThrows(DEFAULT, FONT_ADDRESS_OFFSET)
       THEN /\ process' = Exited(EXIT_ABORT)
            /\ UNCHANGED << memory, pc >>
       ELSE /\ memory' = WriteBytes(memory, DEFAULT, FONT_ADDRESS_OFFSET)
            /\ pc' = "LoadRom"
            /\ UNCHANGED process
    /\ UNCHANGED << cpu, keyboard, screen, shouldRedraw, destinationKeyRegister,
                    currentStatuts, ticks, instr, probe, hist >>

\* main(): emulator.LoadRom(rom), then emulator.Run() is entered.
LoadRomFile(rom) ==
    /\ pc = "LoadRom"
    /\ process.alive
    /\ IF WriteBytesThrows(rom, STARTING_PC)
       THEN /\ process' = Exited(EXIT_ABORT)
            /\ UNCHANGED << memory, pc >>
       ELSE /\ memory' = WriteBytes(memory, rom, STARTING_PC)
            /\ pc' = "loop"
            /\ UNCHANGED process
    /\ UNCHANGED << cpu, keyboard, screen, shouldRedraw, destinationKeyRegister,
                    currentStatuts, ticks, instr, probe, hist >>

\* main(): rom = ReadBinaryFile(argv[1]), any file.
LoadRom == \E rom \in Roms : LoadRomFile(rom)

(***************************************************************************)
(* The Emulator object as one value, as the opcode handlers see it.        *)
(***************************************************************************)
Machine ==
    [cpu |-> cpu, memory |-> memory, keyboard |-> keyboard, screen |-> screen,
     shouldRedraw |-> shouldRedraw,
     destinationKeyRegister |-> destinationKeyRegister,
     currentStatuts |-> currentStatuts, process |-> process, probe |-> probe]

Max(a, b) == IF a >= b THEN a ELSE b

\* std::exit(code) or abort(): nothing after it runs.
Exit(m, code) == [m EXCEPT !.process = Exited(code)]

\* Observation: Memory::data is indexed at address.
Touch(m, address) ==
    [m EXCEPT !.probe.maxAddr = Max(@, address),
              !.probe.ub = @ \/ address >= MEMORY_SIZE]

\* Observation: Cpu::stack is indexed at slot.
TouchStack(m, slot) ==
    [m EXCEPT !.probe.maxSlot = Max(@, slot),
              !.probe.ub = @ \/ slot >= STACK_SIZE]

\* Memory::Read8.  data[address] outside the array is undefined: u.
Read8(m, address, u) ==
    IF address < MEMORY_SIZE THEN m.memory[address] ELSE u

\* Memory::Read16.
Read16(m, address, u) == PACK16(Read8(m, address, u), Read8(m, address + 1, u))

\* Memory::Write8.  A write outside the array is undefined: it lands outside
\* the modelled state.
Write8(m, address, value) ==
    LET t == Touch(m, address) IN
    IF address < MEMORY_SIZE THEN [t EXCEPT !.memory[address] = value] ELSE t

(***************************************************************************)
(* Keyboard.  A failing assert aborts the process.                         *)
(***************************************************************************)
KeyInRange(key) == 0 <= key /\ key < KEYBOARD_SIZE

PressKey(m, key) ==
    IF KeyInRange(key) THEN [m EXCEPT !.keyboard[key] = TRUE]
    ELSE Exit(m, EXIT_ABORT)

ReleaseKey(m, key) ==
    IF KeyInRange(key) THEN [m EXCEPT !.keyboard[key] = FALSE]
    ELSE Exit(m, EXIT_ABORT)

(***************************************************************************)
(* Screen                                                                  *)
(***************************************************************************)
PixelInRange(x, y) == 0 <= x /\ x < DISPLAY_WIDTH /\ 0 <= y /\ y < DISPLAY_HEIGHT

\* Observation: Screen::ReadPixel or Screen::Draw is called with (x, y).
TouchPixel(m, x, y) ==
    [m EXCEPT !.probe.pixels = @ \cup {<<x, y>>}]

\* Screen::ReadPixel past its asserts.
ReadPixel(m, x, y) == m.screen[DISPLAY_WIDTH * y + x]

\* Screen::Draw.
Draw(m, x, y, value) ==
    IF PixelInRange(x, y) THEN [m EXCEPT !.screen[DISPLAY_WIDTH * y + x] = value]
    ELSE Exit(m, EXIT_ABORT)

\* Screen::DrawAll.
DrawAll(m, value) ==
    [m EXCEPT !.screen = [p \in 0..(DISPLAY_WIDTH * DISPLAY_HEIGHT - 1) |-> value]]

(***************************************************************************)
(* Opcode handlers.  Each maps the machine before the instruction to the   *)
(* machine after it; cpu.PC has already been advanced past the word.       *)
(***************************************************************************)
Jump(instr_, hasOffset, m) ==
    LET offset == IF hasOffset THEN m.cpu.V[0] ELSE 0 IN
    [m EXCEPT !.cpu.PC = TWELVE(instr_) + offset]

LoadIntoV(instr_, m) ==
    [m EXCEPT !.cpu.V[SECOND_NIBBLE(instr_)] = LSB(instr_)]

SetIndexRegister(instr_, m) == [m EXCEPT !.cpu.I = TWELVE(instr_)]

\* ClearScreen that asks for no redraw.
ClearScreenSilent(instr_, m) == DrawAll(m, FALSE)

ClearScreen(instr_, m) == [DrawAll(m, FALSE) EXCEPT !.shouldRedraw = TRUE]

\* Call with the slot written before the stack pointer moves.
CallPushFirst(instr_, m) ==
    LET address == TWELVE(instr_)
        sp == m.cpu.SP
        t == TouchStack(m, sp)
        pushed == IF sp < STACK_SIZE
                  THEN [t EXCEPT !.cpu.stack[sp] = m.cpu.PC % 65536]
                  ELSE t
    IN [pushed EXCEPT !.cpu.SP = (sp + 1) % 256, !.cpu.PC = address]

\* cpu.SP is a uint8_t and cpu.stack holds uint16_t; stack[SP] with SP >= 16
\* is outside the array.
Call(instr_, m) ==
    LET address == TWELVE(instr_)
        sp == (m.cpu.SP + 1) % 256
        t == TouchStack(m, sp)
        pushed == IF sp < STACK_SIZE
                  THEN [t EXCEPT !.cpu.stack[sp] = m.cpu.PC % 65536]
                  ELSE t
    IN [pushed EXCEPT !.cpu.SP = sp, !.cpu.PC = address]

ReturnFromRoutine(instr_, m, u) ==
    LET sp == m.cpu.SP
        t == TouchStack(m, sp)
        target == IF sp < STACK_SIZE THEN m.cpu.stack[sp] ELSE PACK16(u, u)
    IN [t EXCEPT !.cpu.PC = target, !.cpu.SP = (sp - 1) % 256]

\* 8xy4 with the carry taken at 255.
Assignment8AddCarryAt255(x, y, m) ==
    LET vx == m.cpu.V[x]
        vy == m.cpu.V[y]
        flag == IF vx + vy >= 255 THEN 1 ELSE 0
    IN [m EXCEPT !.cpu.V = [[@ EXCEPT ![CARRY_FLAG] = flag]
                                EXCEPT ![x] = (vx + vy) % 256]]

\* 8xy4: the carry flag, then the sum.
Assignment8Add(x, y, m) ==
    LET vx == m.cpu.V[x]
        vy == m.cpu.V[y]
        flag == IF vx + vy > 255 THEN 1 ELSE 0
    IN [m EXCEPT !.cpu.V = [[@ EXCEPT ![CARRY_FLAG] = flag]
                                EXCEPT ![x] = (vx + vy) % 256]]

\* 8xy5 with the flag set when the operands are equal too.
Assignment8SubFlagOnEqual(x, y, m) ==
    LET vx == m.cpu.V[x]
        vy == m.cpu.V[y]
        flag == IF vx >= vy THEN 1 ELSE 0
    IN [m EXCEPT !.cpu.V = [[@ EXCEPT ![CARRY_FLAG] = flag]
                                EXCEPT ![x] = (vx - vy) % 256]]

\* 8xy5: the not-borrow flag, then the difference.
Assignment8Sub(x, y, m) ==
    LET vx == m.cpu.V[x]
        vy == m.cpu.V[y]
        flag == IF vx > vy THEN 1 ELSE 0
    IN [m EXCEPT !.cpu.V = [[@ EXCEPT ![CARRY_FLAG] = flag]
                                EXCEPT ![x] = (vx - vy) % 256]]

\* 8xy6
Assignment8Shr(x, y, m) ==
    LET vx == m.cpu.V[x]
        flag == IF BitAnd(vx, 1) # 0 THEN 1 ELSE 0
    IN [m EXCEPT !.cpu.V = [[@ EXCEPT ![CARRY_FLAG] = flag]
                                EXCEPT ![x] = vx \div 2]]

\* 8xy7
Assignment8SubN(x, y, m) ==
    LET vx == m.cpu.V[x]
        vy == m.cpu.V[y]
        flag == IF vy > vx THEN 1 ELSE 0
    IN [m EXCEPT !.cpu.V = [[@ EXCEPT ![CARRY_FLAG] = flag]
                                EXCEPT ![x] = (vy - vx) % 256]]

\* 8xyE
Assignment8Shl(x, y, m) ==
    LET vx == m.cpu.V[x]
        flag == IF BitAnd(vx \div 128, 1) # 0 THEN 1 ELSE 0
    IN [m EXCEPT !.cpu.V = [[@ EXCEPT ![CARRY_FLAG] = flag]
                                EXCEPT ![x] = (vx * 2) % 256]]

Assignment8(instr_, m) ==
    LET x == SECOND_NIBBLE(instr_)
        y == THIRD_NIBBLE(instr_)
        op == FOURTH_NIBBLE(instr_)
    IN CASE op = 0 -> [m EXCEPT !.cpu.V[x] = m.cpu.V[y]]
         [] op = 1 -> [m EXCEPT !.cpu.V[x] = BitOr(m.cpu.V[x], m.cpu.V[y])]
         [] op = 2 -> [m EXCEPT !.cpu.V[x] = BitAnd(m.cpu.V[x], m.cpu.V[y])]
         [] op = 3 -> [m EXCEPT !.cpu.V[x] = BitXor(m.cpu.V[x], m.cpu.V[y])]
         [] op = 4 -> Assignment8Add(x, y, m)
         [] op = 5 -> Assignment8Sub(x, y, m)
         [] op = 6 -> Assignment8Shr(x, y, m)
         [] op = 7 -> Assignment8SubN(x, y, m)
         [] op = 14 -> Assignment8Shl(x, y, m)
         [] OTHER -> Exit(m, EXIT_MINUS_ONE)

Add(instr_, m) ==
    LET reg == SECOND_NIBBLE(instr_) IN
    [m EXCEPT !.cpu.V[reg] = (@ + LSB(instr_)) % 256]

\* SkipEqual that never skips.
SkipEqualNever(instr_, compareRegister, m) == m

SkipEqual(instr_, compareRegister, m) ==
    LET reg == SECOND_NIBBLE(instr_)
        value == IF compareRegister THEN m.cpu.V[THIRD_NIBBLE(instr_)]
                 ELSE LSB(instr_)
    IN IF m.cpu.V[reg] = value THEN [m EXCEPT !.cpu.PC = @ + 2] ELSE m

SkipNotEqual(instr_, compareRegister, m) ==
    LET x == SECOND_NIBBLE(instr_)
        value == IF compareRegister THEN m.cpu.V[THIRD_NIBBLE(instr_)]
                 ELSE LSB(instr_)
    IN IF m.cpu.V[x] # value THEN [m EXCEPT !.cpu.PC = @ + 2] ELSE m

\* std::rand() % 0x100 is rnd.
Random(instr_, m, rnd) ==
    [m EXCEPT !.cpu.V[SECOND_NIBBLE(instr_)] = BitAnd(LSB(instr_), rnd)]

Bit(b) == IF b THEN 1 ELSE 0

RECURSIVE Pow2(_)
Pow2(j) == IF j = 0 THEN 1 ELSE 2 * Pow2(j - 1)

\* DrawBit with a collided pixel left on.
DrawBitKeepsCollided(m, spriteRow, x0, y0, j) ==
    LET t == TouchPixel(m, x0, y0) IN
    IF ~PixelInRange(x0, y0) THEN Exit(t, EXIT_ABORT)
    ELSE
        LET pixel == ReadPixel(t, x0, y0)
            spriteBit == BitAnd(spriteRow, Pow2(j))
        IN IF spriteBit # 0 /\ pixel
           THEN [t EXCEPT !.cpu.V[CARRY_FLAG] = 1]
           ELSE Draw(t, x0, y0, BitXor(Bit(pixel), spriteBit) # 0)

\* DrawBit with the row's bits taken least-significant first.
DrawBitLsbFirst(m, spriteRow, x0, y0, j) ==
    LET t == TouchPixel(m, x0, y0) IN
    IF ~PixelInRange(x0, y0) THEN Exit(t, EXIT_ABORT)
    ELSE
        LET pixel == ReadPixel(t, x0, y0)
            spriteBit == BitAnd(spriteRow, Pow2(7 - j))
        IN IF spriteBit # 0 /\ pixel
           THEN [Draw(t, x0, y0, FALSE) EXCEPT !.cpu.V[CARRY_FLAG] = 1]
           ELSE Draw(t, x0, y0, BitXor(Bit(pixel), spriteBit) # 0)

\* DrawPixels: the body of the inner loop, bit j of the row at (x0, y0).
DrawBit(m, spriteRow, x0, y0, j) ==
    LET t == TouchPixel(m, x0, y0) IN
    IF ~PixelInRange(x0, y0) THEN Exit(t, EXIT_ABORT)
    ELSE
        LET pixel == ReadPixel(t, x0, y0)
            spriteBit == BitAnd(spriteRow, Pow2(j))
        IN IF spriteBit # 0 /\ pixel
           THEN [Draw(t, x0, y0, FALSE) EXCEPT !.cpu.V[CARRY_FLAG] = 1]
           ELSE Draw(t, x0, y0, BitXor(Bit(pixel), spriteBit) # 0)

\* RowEnds one column late.
RowEndsLate(x0) == x0 + 1 > DISPLAY_WIDTH

\* DrawPixels: if (++x0 >= DISPLAY_WIDTH) break, x0 being the column drawn.
RowEnds(x0) == x0 + 1 >= DISPLAY_WIDTH

\* DrawPixels: the inner loop, for (j = 7; j >= 0; j--), from bit j at (x0, y0).
RECURSIVE DrawRow(_, _, _, _, _)
DrawRow(m, spriteRow, x0, y0, j) ==
    IF j < 0 \/ ~m.process.alive THEN m
    ELSE
        LET drawn == DrawBit(m, spriteRow, x0, y0, j) IN
        IF RowEnds(x0) THEN drawn
        ELSE DrawRow(drawn, spriteRow, x0 + 1, y0, j - 1)

\* DrawPixels: the outer loop, for (i = 0; i < n; i++), from row i at y0.
RECURSIVE DrawRows(_, _, _, _, _, _)
DrawRows(m, x, y0, i, n, u) ==
    IF i >= n \/ ~m.process.alive THEN m
    ELSE
        LET spriteRow == Read8(m, m.cpu.I + i, u)
            row == DrawRow(Touch(m, m.cpu.I + i), spriteRow, x, y0, 7)
        IN IF y0 + 1 >= DISPLAY_HEIGHT THEN row
           ELSE DrawRows(row, x, y0 + 1, i + 1, n, u)

DrawPixels(instr_, m, u) ==
    LET x == m.cpu.V[SECOND_NIBBLE(instr_)] % DISPLAY_WIDTH
        y == m.cpu.V[THIRD_NIBBLE(instr_)] % DISPLAY_HEIGHT
        n == FOURTH_NIBBLE(instr_)
        cleared == [m EXCEPT !.cpu.V[CARRY_FLAG] = 0]
        drawn == DrawRows(cleared, x, y, 0, n, u)
    IN IF drawn.process.alive THEN [drawn EXCEPT !.shouldRedraw = TRUE] ELSE drawn

\* FDispatcher case 0x33 with the tens digit left unreduced.
StoreBcdTensUnreduced(instr_, m) ==
    LET vx == m.cpu.V[SECOND_NIBBLE(instr_)]
        index == m.cpu.I
        m1 == Write8(m, index, ((vx % 1000) \div 100) % 256)
        m2 == Write8(m1, index + 1, vx \div 10)
    IN Write8(m2, index + 2, vx % 10)

\* FDispatcher case 0x33.
StoreBcd(instr_, m) ==
    LET vx == m.cpu.V[SECOND_NIBBLE(instr_)]
        index == m.cpu.I
        m1 == Write8(m, index, ((vx % 1000) \div 100) % 256)
        m2 == Write8(m1, index + 1, (vx % 100) \div 10)
    IN Write8(m2, index + 2, vx % 10)

\* FDispatcher case 0x55: for (i = 0; i < SECOND_NIBBLE(instr); i++), from i.
RECURSIVE StoreRegisters(_, _, _)
StoreRegisters(instr_, m, i) ==
    IF i < SECOND_NIBBLE(instr_)
    THEN StoreRegisters(instr_, Write8(m, i + m.cpu.I, m.cpu.V[i]), i + 1)
    ELSE m

\* FDispatcher case 0x65: for (i = 0; i < SECOND_NIBBLE(instr); i++), from i.
RECURSIVE LoadRegisters(_, _, _, _)
LoadRegisters(instr_, m, i, u) ==
    IF i < SECOND_NIBBLE(instr_)
    THEN LoadRegisters(instr_,
             [Touch(m, i + m.cpu.I) EXCEPT !.cpu.V[i] = Read8(m, i + m.cpu.I, u)],
             i + 1, u)
    ELSE m

FDispatcher(instr_, m, u) ==
    LET x == SECOND_NIBBLE(instr_)
        low == LSB(instr_)
    IN CASE low = 7 -> [m EXCEPT !.cpu.V[x] = m.cpu.delayTimer]
         [] low = 10 -> [m EXCEPT !.destinationKeyRegister = {x},
                                  !.currentStatuts = "WAITING_FOR_KEY"]
         [] low = 21 -> [m EXCEPT !.cpu.delayTimer = m.cpu.V[x]]
         [] low = 24 -> [m EXCEPT !.cpu.soundTimer = m.cpu.V[x]]
         [] low = 30 -> [m EXCEPT !.cpu.I = (@ + m.cpu.V[x]) % 65536]
         [] low = 41 -> [m EXCEPT !.cpu.I =
                                    (m.cpu.V[x] * 5 + FONT_ADDRESS_OFFSET) % 65536]
         [] low = 51 -> StoreBcd(instr_, m)
         [] low = 85 -> StoreRegisters(instr_, m, 0)
         [] low = 101 -> LoadRegisters(instr_, m, 0, u)
         [] OTHER -> Exit(m, EXIT_MINUS_ONE)

\* Keyboard::isKeyPressed asserts its key; the query happens for 9E and A1 only.
SkipIfKey(instr_, m) ==
    LET subop == LSB(instr_)
        vx == m.cpu.V[SECOND_NIBBLE(instr_)]
    IN IF subop \in {158, 161} /\ ~KeyInRange(vx) THEN Exit(m, EXIT_ABORT)
       ELSE
        LET shouldSkip == IF subop = 158 THEN m.keyboard[vx]
                          ELSE IF subop = 161 THEN ~m.keyboard[vx]
                          ELSE FALSE
        IN IF shouldSkip THEN [m EXCEPT !.cpu.PC = @ + 2] ELSE m

\* Run: the switch on the opcode nibble.
Execute(instr_, m, u, rnd) ==
    LET opcode == FIRST_NIBBLE(instr_) IN
    CASE opcode = 0 -> IF instr_ = 224 THEN ClearScreen(instr_, m)
                       ELSE IF instr_ = 238 THEN ReturnFromRoutine(instr_, m, u)
                       ELSE Exit(m, EXIT_FAILURE)
      [] opcode = 1 -> Jump(instr_, FALSE, m)
      [] opcode = 2 -> Call(instr_, m)
      [] opcode = 3 -> SkipEqual(instr_, FALSE, m)
      [] opcode = 4 -> SkipNotEqual(instr_, FALSE, m)
      [] opcode = 5 -> SkipEqual(instr_, TRUE, m)
      [] opcode = 6 -> LoadIntoV(instr_, m)
      [] opcode = 7 -> Add(instr_, m)
      [] opcode = 8 -> Assignment8(instr_, m)
      [] opcode = 9 -> SkipNotEqual(instr_, TRUE, m)
      [] opcode = 10 -> SetIndexRegister(instr_, m)
      [] opcode = 11 -> Jump(instr_, TRUE, m)
      [] opcode = 12 -> Random(instr_, m, rnd)
      [] opcode = 13 -> DrawPixels(instr_, m, u)
      [] opcode = 14 -> SkipIfKey(instr_, m)
      [] opcode = 15 -> FDispatcher(instr_, m, u)
      [] OTHER -> Exit(m, EXIT_MINUS_ONE)

(***************************************************************************)
(* Emulator::Run.  One iteration of its loop (a tick) is BeginTick, the    *)
(* callback once per event SDL_PollEvent delivers, then Idle or Step.      *)
(***************************************************************************)
\* A key-up that ends the wait for a key.
OnKeyUpResumes(key, m) == [m EXCEPT !.currentStatuts = "RUNNING"]

\* The key-up branch of the callback.
OnKeyUp(key, m) ==
    LET m1 == IF key >= SDLK_0 /\ key <= SDLK_9
              THEN ReleaseKey(m, (key - SDLK_0) % 256)
              ELSE m
    IN IF m1.process.alive /\ key >= SDLK_a /\ key <= SDLK_f
       THEN ReleaseKey(m1, ((key - SDLK_a) + 10) % 256)
       ELSE m1

\* The key the key-down branch computes: pressedKey starts as 0.
PressedKey(key) ==
    LET k1 == IF key >= SDLK_0 /\ key <= SDLK_9 THEN (key - SDLK_0) % 256 ELSE 0
    IN IF key >= SDLK_a /\ key <= SDLK_f THEN ((key - SDLK_a) + 10) % 256 ELSE k1

\* DeliverKey that writes V0 whether or not a register is pending.
DeliverKeyAlways(pressedKey, m) ==
    [m EXCEPT !.cpu.V[0] = pressedKey,
              !.destinationKeyRegister = {},
              !.currentStatuts = "RUNNING"]

\* DeliverKey that pauses the emulator instead of resuming it.
DeliverKeyPauses(pressedKey, m) ==
    IF m.destinationKeyRegister # {}
    THEN [m EXCEPT !.destinationKeyRegister = {}, !.currentStatuts = "PAUSED"]
    ELSE m

\* The key-down branch: what it does once a destination register is pending.
DeliverKey(pressedKey, m) ==
    IF m.destinationKeyRegister # {}
    THEN LET x == CHOOSE r \in m.destinationKeyRegister : TRUE IN
         IF ~(0 <= x /\ x <= 15) \/ ~(0 <= pressedKey /\ pressedKey <= 15)
         THEN Exit(m, EXIT_ABORT)
         ELSE [m EXCEPT !.cpu.V[x] = pressedKey,
                        !.destinationKeyRegister = {},
                        !.currentStatuts = "RUNNING"]
    ELSE m

\* The key-down branch of the callback.
OnKeyDown(key, m) ==
    IF key = SDLK_ESCAPE \/ key = SDLK_q THEN Exit(m, EXIT_FAILURE)
    ELSE
        LET m1 == IF key >= SDLK_0 /\ key <= SDLK_9
                  THEN PressKey(m, (key - SDLK_0) % 256)
                  ELSE m
            m2 == IF m1.process.alive /\ key >= SDLK_a /\ key <= SDLK_f
                  THEN PressKey(m1, ((key - SDLK_a) + 10) % 256)
                  ELSE m1
        IN IF m2.process.alive THEN DeliverKey(PressedKey(key), m2) ELSE m2

\* The lambda Run passes to Screen::PollEvent.
Callback(e, m) ==
    IF e.type = "SDL_QUIT" THEN Exit(m, EXIT_FAILURE)
    ELSE IF e.type = "SDL_KEYUP" THEN OnKeyUp(e.sym, m)
    ELSE IF e.type = "SDL_KEYDOWN" THEN OnKeyDown(e.sym, m)
    ELSE m

\* The machine m becomes the state.
Becomes(m) ==
    /\ cpu' = m.cpu
    /\ memory' = m.memory
    /\ keyboard' = m.keyboard
    /\ screen' = m.screen
    /\ shouldRedraw' = m.shouldRedraw
    /\ destinationKeyRegister' = m.destinationKeyRegister
    /\ currentStatuts' = m.currentStatuts
    /\ process' = m.process
    /\ probe' = m.probe

\* The decrement without its test for zero.
CountdownWraps(t) == (t - 1) % 256

\* The timers' decrement at the top of the loop.
Countdown(t) == IF t > 0 THEN t - 1 ELSE t

\* The loop's condition and the timers.  With STOPPED, Run returns and main
\* returns EXIT_SUCCESS.
BeginTick ==
    /\ pc = "loop"
    /\ process.alive
    /\ ticks < MaxTicks
    /\ IF currentStatuts = "STOPPED"
       THEN /\ process' = Exited(EXIT_SUCCESS)
            /\ pc' = "done"
            /\ UNCHANGED << cpu, ticks, instr, probe >>
       ELSE /\ cpu' = [cpu EXCEPT !.delayTimer = Countdown(@),
                                  !.soundTimer = Countdown(@)]
            /\ pc' = "poll"
            /\ ticks' = ticks + 1
            /\ instr' = NoInstr
            /\ probe' = NoProbe
            /\ UNCHANGED process
    /\ UNCHANGED << memory, keyboard, screen, shouldRedraw,
                    destinationKeyRegister, currentStatuts, hist >>

\* Screen::PollEvent delivers event e to the callback.
Deliver(e) ==
    /\ pc = "poll"
    /\ process.alive
    /\ Becomes(Callback(e, Machine))
    /\ UNCHANGED << pc, ticks, instr, hist >>

\* Screen::PollEvent: SDL_PollEvent has one more event.
PollEvent == \E e \in Events : Deliver(e)

\* No event is left and the status is not RUNNING: Delay, continue.
Idle ==
    /\ pc = "poll"
    /\ process.alive
    /\ currentStatuts # "RUNNING"
    /\ pc' = "loop"
    /\ UNCHANGED << cpu, memory, keyboard, screen, shouldRedraw,
                    destinationKeyRegister, currentStatuts, process, ticks,
                    instr, probe, hist >>

\* After an instruction that indexed an array outside its bounds the process
\* may go on or be killed.
Outcomes(m) ==
    IF m.process.alive /\ m.probe.ub THEN {m, Exit(m, EXIT_SEGV)} ELSE {m}

\* The end of the loop body: Delay, and Screen::Update when a redraw is due.
Present(m) ==
    IF m.process.alive /\ m.shouldRedraw
    THEN [m EXCEPT !.probe.presented = TRUE, !.shouldRedraw = FALSE]
    ELSE m

\* The fetch: Read16 at cpu.PC, then cpu.PC += 2.
Fetch(m) == [Touch(Touch(m, m.cpu.PC), m.cpu.PC + 1) EXCEPT !.cpu.PC = @ + 2]

\* The observation of one executed instruction.
\* The pixels that are on.
Lit(data) == {p \in DOMAIN data : data[p]}

Executed(word, before, after) ==
    [instr |-> word, tick |-> ticks,
     pcIn |-> before.cpu.PC, spIn |-> before.cpu.SP,
     vIn |-> before.cpu.V, iIn |-> before.cpu.I, litIn |-> Lit(before.screen),
     pcOut |-> after.cpu.PC, spOut |-> after.cpu.SP,
     dtOut |-> after.cpu.delayTimer, stOut |-> after.cpu.soundTimer,
     litOut |-> Lit(after.screen)]

Remember(h, r) == IF Len(h) < 2 THEN Append(h, r) ELSE << h[2], r >>

\* The undefined bytes a fetch at cpu.PC can read: one is drawn only when the
\* word lies across the end of Memory::data.
FetchUndef(m) == IF m.cpu.PC + 1 >= MEMORY_SIZE THEN UndefBytes ELSE {0}

\* The undefined bytes executing word can read: one is drawn only when the
\* instruction indexes an array outside its bounds.
ExecuteUndef(word, m) ==
    IF Execute(word, [m EXCEPT !.probe.ub = FALSE], 0, 0).probe.ub
    THEN UndefBytes ELSE {0}

\* std::rand() is called by Random (CXNN) alone.
RandDraws(word) == IF FIRST_NIBBLE(word) = 12 THEN RandBytes ELSE {0}

\* No event is left and the status is RUNNING: fetch, decode, execute, redraw.
Step ==
    /\ pc = "poll"
    /\ process.alive
    /\ currentStatuts = "RUNNING"
    /\ \E uf \in FetchUndef(Machine) :
        LET word == Read16(Machine, cpu.PC, uf)
            fetched == Fetch(Machine)
        IN \E u \in ExecuteUndef(word, fetched), rnd \in RandDraws(word) :
            LET after == Execute(word, fetched, u, rnd) IN
            /\ \E m \in Outcomes(after) : Becomes(Present(m))
            /\ instr' = word
            /\ hist' = Remember(hist, Executed(word, fetched, after))
    /\ pc' = "loop"
    /\ UNCHANGED ticks

Next == LoadFont \/ LoadRom \/ BeginTick \/ PollEvent \/ Idle \/ Step

Spec == Init /\ [][Next]_vars

(***************************************************************************)
(* Properties.                                                             *)
(***************************************************************************)
\* The step is the end of a tick in which an instruction was executed.
Ran == pc = "poll" /\ pc' = "loop" /\ instr' # NoInstr

\* The state is the end of a tick in which an instruction was executed.
HasRun == pc = "loop" /\ instr # NoInstr

\* The word is 8XY<op>.
IsAlu(word, op) == FIRST_NIBBLE(word) = 8 /\ FOURTH_NIBBLE(word) = op

\* The word is FX<low>.
IsF(word, low) == FIRST_NIBBLE(word) = 15 /\ LSB(word) = low

\* C1: executing 8XY4 with X # F leaves VX = (a + b) mod 256 and VF = 1 when
\* a + b > 255, VF = 0 otherwise, a and b being VX and VY before.
C1_AddCarry ==
    [][(Ran /\ IsAlu(instr', 4) /\ SECOND_NIBBLE(instr') # CARRY_FLAG) =>
        LET a == cpu.V[SECOND_NIBBLE(instr')]
            b == cpu.V[THIRD_NIBBLE(instr')]
        IN /\ cpu'.V[SECOND_NIBBLE(instr')] = (a + b) % 256
           /\ cpu'.V[CARRY_FLAG] = IF a + b > 255 THEN 1 ELSE 0]_vars

\* An 8XY4 with X # F has run, with a carry and a wrapped sum.
C1_Witness ==
    /\ HasRun /\ IsAlu(instr, 4) /\ SECOND_NIBBLE(instr) # CARRY_FLAG
    /\ cpu.V[CARRY_FLAG] = 1
    /\ cpu.V[SECOND_NIBBLE(instr)] = 254

C3_StoreInclusive ==
    (HasRun /\ IsF(instr, 85) /\ process.alive
        /\ cpu.I + SECOND_NIBBLE(instr) < MEMORY_SIZE) =>
      \A i \in 0..SECOND_NIBBLE(instr) : memory[cpu.I + i] = cpu.V[i]

\* C4: FX65 leaves Vi = memory[I + i] for every i in 0..X, X included, and
\* the registers above VX as they were.
C4_LoadInclusive ==
    [][(Ran /\ IsF(instr', 101) /\ process'.alive
            /\ cpu.I + SECOND_NIBBLE(instr') < MEMORY_SIZE) =>
        /\ \A i \in 0..SECOND_NIBBLE(instr') : cpu'.V[i] = memory[cpu.I + i]
        /\ \A r \in (SECOND_NIBBLE(instr') + 1)..(NUMBER_OF_V_REGISTERS - 1) :
              cpu'.V[r] = cpu.V[r]]_vars

\* The rows of the dispatch table of the specification.
InDispatchTable(word) ==
    LET class == FIRST_NIBBLE(word) IN
    CASE class = 0 -> word \in {224, 238}
      [] class \in {5, 9} -> FOURTH_NIBBLE(word) = 0
      [] class = 8 -> FOURTH_NIBBLE(word) \in {0, 1, 2, 3, 4, 5, 6, 7, 14}
      [] class = 14 -> LSB(word) \in {158, 161}
      [] class = 15 -> LSB(word) \in {7, 10, 21, 24, 30, 41, 51, 85, 101}
      [] OTHER -> TRUE

\* C5: a fetched word that matches no row of the dispatch table ends the run.
C5_UnknownOpcodeFatal ==
    (HasRun /\ ~InDispatchTable(instr)) => ~process.alive

\* C6: the stack pointer stays in 0..15 and no stack slot outside 0..15 is
\* written or read.
C6_StackPointerInRange ==
    /\ cpu.SP \in 0..(STACK_SIZE - 1)
    /\ probe.maxSlot < STACK_SIZE

IsCall(word) == FIRST_NIBBLE(word) = 2

\* C7: a 2NNN executed with SP < 15 and then a 00EE, with no instruction
\* between them, leave PC at the address after the call word and SP as it
\* was before the call.
C7_CallReturn ==
    (Len(hist) = 2 /\ IsCall(hist[1].instr) /\ hist[1].spIn < 15
        /\ hist[2].instr = 238) =>
      /\ hist[2].pcOut = hist[1].pcIn
      /\ hist[2].spOut = hist[1].spIn
      /\ (HasRun => cpu.PC = hist[1].pcIn /\ cpu.SP = hist[1].spIn)

\* A nested call (SP = 1 before it) was followed at once by a return.
C7_Witness ==
    /\ HasRun /\ Len(hist) = 2
    /\ IsCall(hist[1].instr) /\ hist[1].spIn = 1 /\ hist[2].instr = 238
    /\ cpu.PC = 516 /\ cpu.SP = 1

\* C8: every memory access of a tick (fetch or handler) is below 4096.
C8_AccessInMemory == probe.maxAddr < MEMORY_SIZE

\* The keypad value of a host key of the keypad: 0-9, then a-f.
IsHexSym(sym) ==
    (sym >= SDLK_0 /\ sym <= SDLK_9) \/ (sym >= SDLK_a /\ sym <= SDLK_f)
HexValue(sym) == IF sym <= SDLK_9 THEN sym - SDLK_0 ELSE sym - SDLK_a + 10
IsQuit(e) == e.type = "SDL_QUIT" \/ (e.type = "SDL_KEYDOWN" /\ e.sym \in {SDLK_ESCAPE, SDLK_q})
IsHexKeyDown(e) == e.type = "SDL_KEYDOWN" /\ IsHexSym(e.sym)

\* C9: in WaitingForKey with destination X, a key-down of hex key k writes k
\* to VX, clears the destination and sets Running; any other event leaves
\* the state WaitingForKey; and a tick that polled its events in Running
\* fetches and executes the instruction at PC.
C9_KeyWait ==
    [][/\ \A e \in Events :
            (currentStatuts = "WAITING_FOR_KEY" /\ Deliver(e)) =>
                IF IsHexKeyDown(e)
                THEN /\ \A x \in destinationKeyRegister :
                            cpu'.V[x] = HexValue(e.sym)
                     /\ destinationKeyRegister' = {}
                     /\ currentStatuts' = "RUNNING"
                ELSE currentStatuts' = "WAITING_FOR_KEY"
       /\ (pc = "poll" /\ pc' = "loop" /\ currentStatuts = "RUNNING") =>
            /\ instr' # NoInstr
            /\ hist'[Len(hist')].pcIn = cpu.PC + 2]_vars

\* C10: a key-down or key-up of a host key outside the keypad that is not a
\* quit key changes neither the keypad, the registers, the destination
\* register nor the driver state.
C10_OtherKeysIgnored ==
    [][\A e \in Events :
        (e.type \in {"SDL_KEYDOWN", "SDL_KEYUP"} /\ ~IsHexSym(e.sym)
            /\ ~IsQuit(e) /\ Deliver(e)) =>
          /\ keyboard' = keyboard
          /\ cpu'.V = cpu.V
          /\ destinationKeyRegister' = destinationKeyRegister
          /\ currentStatuts' = currentStatuts]_vars

\* C11: a quit signal (SDL_QUIT, or a key-down of Escape or q) observed in a
\* tick, in Running or WaitingForKey, moves the driver to Stopped and the
\* process ends with exit code zero, no instruction being fetched after it.
C11_QuitStopsCleanly ==
    [][\A e \in Events :
        (IsQuit(e) /\ Deliver(e)) =>
          /\ instr' = instr
          /\ currentStatuts' = "STOPPED" \/ ~process'.alive
          /\ ~process'.alive => process'.code = EXIT_SUCCESS]_vars

\* The value a timer holds when it was v at the end of tick t and has not
\* been set since.
Elapsed(v, t) == Max(0, v - (ticks - t))

\* C12: both timers stay in 0..255; a tick's start takes one from each
\* nonzero timer and leaves a zero timer at zero, in WaitingForKey as in
\* Running; so a timer left at n by the last executed instruction is
\* max(0, n - k) once k further ticks have begun, 0 from the n-th on.
C12_Timers ==
    /\ [](/\ cpu.delayTimer \in 0..255
          /\ cpu.soundTimer \in 0..255
          /\ hist = << >> => cpu.delayTimer = 0 /\ cpu.soundTimer = 0
          /\ hist # << >> =>
                LET last == hist[Len(hist)] IN
                /\ cpu.delayTimer = Elapsed(last.dtOut, last.tick)
                /\ cpu.soundTimer = Elapsed(last.stOut, last.tick))
    /\ [][(pc = "loop" /\ pc' = "poll") =>
            /\ ticks' = ticks + 1
            /\ cpu'.delayTimer = IF cpu.delayTimer > 0 THEN cpu.delayTimer - 1 ELSE 0
            /\ cpu'.soundTimer = IF cpu.soundTimer > 0 THEN cpu.soundTimer - 1 ELSE 0]_vars

\* The sound timer was set to 2 by F118 and is 0, the machine waiting for a
\* key, more than two ticks later.
C12_Witness ==
    /\ currentStatuts = "WAITING_FOR_KEY"
    /\ Len(hist) = 2 /\ hist[1].instr = 61720 /\ hist[1].stOut = 2
    /\ ticks >= hist[1].tick + 3
    /\ cpu.soundTimer = 0 /\ cpu.delayTimer = 0

IsDraw(word) == FIRST_NIBBLE(word) = 13

\* The last two executed instructions are the same DXYN with the same VX, VY
\* and I, its sprite rows inside the memory.
DrewTwice ==
    /\ Len(hist) = 2
    /\ IsDraw(hist[1].instr) /\ hist[2].instr = hist[1].instr
    /\ hist[2].iIn = hist[1].iIn
    /\ hist[1].iIn + FOURTH_NIBBLE(hist[1].instr) <= MEMORY_SIZE
    /\ \A r \in {SECOND_NIBBLE(hist[1].instr), THIRD_NIBBLE(hist[1].instr)} :
          hist[2].vIn[r] = hist[1].vIn[r]

\* C13: the same DXYN executed twice in a row leaves every pixel as it was
\* before the first of the two.
C13_DrawTwiceRestores ==
    DrewTwice => hist[2].litOut = hist[1].litIn

\* The glyph 1 was drawn twice over the glyph 0: the first draw collided
\* (VF = 1 after it) and changed pixels, the second brought them back.
C13_Witness ==
    /\ DrewTwice /\ HasRun
    /\ hist[1].iIn = 85
    /\ hist[2].vIn[CARRY_FLAG] = 1
    /\ hist[1].litOut # hist[1].litIn
    /\ hist[1].litIn # {}
    /\ Lit(screen) = hist[1].litIn

\* What a bulk write of input at offset must do between two states.
BulkWritten(input, offset) ==
    IF Len(input) + offset >= MEMORY_SIZE
    THEN /\ memory' = memory
         /\ ~process'.alive /\ process'.code = EXIT_ABORT
    ELSE /\ process'.alive
         /\ \A a \in 0..(MEMORY_SIZE - 1) :
               memory'[a] = IF offset <= a /\ a <= offset + Len(input) - 1
                            THEN input[a - offset + 1]
                            ELSE memory[a]

\* C14: a bulk write (font or ROM) is refused exactly when offset + length
\* >= 4096 and then changes no byte; an accepted one copies the input verbatim
\* and changes no other byte, so an accepted ROM leaves the font in place.
C14_BulkWrite ==
    [][/\ pc = "LoadFont" => BulkWritten(DEFAULT, FONT_ADDRESS_OFFSET)
       /\ pc = "LoadRom" =>
             \A rom \in Roms :
                 LoadRomFile(rom) =>
                   /\ BulkWritten(rom, STARTING_PC)
                   /\ process'.alive =>
                         \A k \in 1..Len(DEFAULT) :
                             memory'[FONT_ADDRESS_OFFSET + k - 1] = DEFAULT[k]]_vars

\* The file of MEMORY_SIZE - STARTING_PC bytes was refused: the process is
\* gone, the font is in memory and no byte of the file is.
C14_Witness ==
    /\ pc = "LoadRom" /\ ~process.alive /\ process.code = EXIT_ABORT
    /\ memory[FONT_ADDRESS_OFFSET] = DEFAULT[1]
    /\ \A a \in STARTING_PC..(MEMORY_SIZE - 1) : memory[a] = 0

\* C15: the index register is at most 0xFFF in every state, and FX1E leaves
\* (I + VX) mod 4096 in it.
C15_IndexTwelveBits ==
    /\ cpu.I <= 4095
    /\ (HasRun /\ IsF(instr, 30) /\ hist # << >>) =>
          LET last == hist[Len(hist)] IN
          cpu.I = (last.iIn + last.vIn[SECOND_NIBBLE(instr)]) % 4096

\* C16: after 1NNN and 2NNN the program counter is NNN, after BNNN it is
\* (NNN + V0) mod 4096: at most 0xFFF after every jump.
C16_JumpTwelveBits ==
    (HasRun /\ process.alive /\ FIRST_NIBBLE(instr) \in {1, 2, 11}) =>
        /\ cpu.PC <= 4095
        /\ FIRST_NIBBLE(instr) \in {1, 2} => cpu.PC = TWELVE(instr)
        /\ FIRST_NIBBLE(instr) = 11 => cpu.PC = (TWELVE(instr) + cpu.V[0]) % 4096

\* C17: FX33 with its three bytes inside the memory writes the hundreds, tens
\* and ones digit of VX at I, I + 1 and I + 2 and changes no other byte of
\* memory, no register and not I.
C17_StoreBcd ==
    [][(Ran /\ IsF(instr', 51) /\ cpu.I + 2 < MEMORY_SIZE) =>
          LET vx == cpu.V[SECOND_NIBBLE(instr')] IN
          /\ memory' = [memory EXCEPT ![cpu.I] = vx \div 100,
                                      ![cpu.I + 1] = (vx \div 10) % 10,
                                      ![cpu.I + 2] = vx % 10]
          /\ 100 * memory'[cpu.I] + 10 * memory'[cpu.I + 1] + memory'[cpu.I + 2] = vx
          /\ \A d \in 0..2 : memory'[cpu.I + d] \in 0..9
          /\ cpu'.V = cpu.V
          /\ cpu'.I = cpu.I]_vars

\* FX33 has stored 1, 5, 6 for V0 = 156.
C17_Witness ==
    /\ HasRun /\ IsF(instr, 51)
    /\ cpu.V[0] = 156 /\ cpu.I = 768
    /\ memory[768] = 1 /\ memory[769] = 5 /\ memory[770] = 6

\* The memory holds the ROM 6005 7003 3008 F0FF.
SkipRomLoaded ==
    /\ pc \in {"loop", "poll"}
    /\ \A k \in 1..(2 * Len(SkipRom)) :
          memory[STARTING_PC + k - 1] = RomBytes(SkipRom)[k]

\* C18: with the ROM 6005 7003 3008 F0FF, after three ticks V0 = 8, PC = 0x208
\* and the emulator is RUNNING; the word F0FF at 0x206 is never fetched and
\* never ends the process.
C18_SkipsFatalOpcode ==
    SkipRomLoaded =>
        /\ instr # 61695
        /\ process.code # EXIT_MINUS_ONE
        /\ (ticks = 3 /\ HasRun /\ process.alive) =>
              /\ cpu.V[0] = 8
              /\ cpu.PC = 520
              /\ currentStatuts = "RUNNING"

\* The third tick of that ROM has ended.
C18_Witness ==
    /\ SkipRomLoaded /\ ticks = 3 /\ HasRun /\ process.alive
    /\ instr = 12296 /\ cpu.V[0] = 8 /\ cpu.PC = 520

Min(a, b) == IF a <= b THEN a ELSE b

\* The columns and rows of the clipped rectangle of the DXYN word, in the
\* state before it executes.
DrawColumns(word) ==
    LET x == cpu.V[SECOND_NIBBLE(word)] % DISPLAY_WIDTH IN
    x..Min(x + 7, DISPLAY_WIDTH - 1)
DrawLines(word) ==
    LET y == cpu.V[THIRD_NIBBLE(word)] % DISPLAY_HEIGHT IN
    y..Min(y + FOURTH_NIBBLE(word) - 1, DISPLAY_HEIGHT - 1)

\* C19: DXYN reads and writes only pixels of the clipped rectangle, columns
\* x..min(x + 7, 63) and rows y..min(y + N - 1, 31); every pixel outside it is
\* unchanged and no pixel access has a column >= 64 or a row >= 32.
C19_DrawFrame ==
    [][(Ran /\ IsDraw(instr')) =>
          /\ \A q \in probe'.pixels :
                /\ q[1] \in DrawColumns(instr') /\ q[2] \in DrawLines(instr')
                /\ q[1] < DISPLAY_WIDTH /\ q[2] < DISPLAY_HEIGHT
          /\ \A c \in 0..(DISPLAY_WIDTH - 1), r \in 0..(DISPLAY_HEIGHT - 1) :
                (c \notin DrawColumns(instr') \/ r \notin DrawLines(instr')) =>
                    screen'[DISPLAY_WIDTH * r + c] = screen[DISPLAY_WIDTH * r + c]
          /\ process'.code # EXIT_ABORT]_vars

\* The glyph 0 drawn at (62, 31): two columns of its first row fit, the
\* corner pixels are lit and nothing wrapped to column 0 or row 0.
C19_Witness ==
    /\ HasRun /\ instr = 53269
    /\ cpu.V[0] = 254 /\ cpu.V[1] = 127 /\ cpu.V[CARRY_FLAG] = 0
    /\ probe.pixels = {<<62, 31>>, <<63, 31>>}
    /\ Lit(screen) = {2046, 2047}

\* The sprite bit DXYN applies at column c, row r: bit 7 - (c - x) of the
\* byte at I + (r - y).
SpriteBit(word, c, r) ==
    LET x == cpu.V[SECOND_NIBBLE(word)] % DISPLAY_WIDTH
        y == cpu.V[THIRD_NIBBLE(word)] % DISPLAY_HEIGHT
    IN (memory[cpu.I + (r - y)] \div Pow2(7 - (c - x))) % 2 = 1

\* C20: after DXYN, with its sprite rows inside the memory, each pixel of the
\* clipped rectangle is its old value XOR the sprite bit, bits taken
\* most-significant first, and VF is 1 exactly when a sprite bit inside the
\* rectangle was 1 on a pixel that was set, else 0 (also when N = 0).
C20_DrawXorAndFlag ==
    [][(Ran /\ IsDraw(instr') /\ cpu.I + FOURTH_NIBBLE(instr') <= MEMORY_SIZE) =>
          /\ \A c \in DrawColumns(instr'), r \in DrawLines(instr') :
                screen'[DISPLAY_WIDTH * r + c] =
                    (screen[DISPLAY_WIDTH * r + c] # SpriteBit(instr', c, r))
          /\ cpu'.V[CARRY_FLAG] =
                IF \E c \in DrawColumns(instr'), r \in DrawLines(instr') :
                       SpriteBit(instr', c, r) /\ screen[DISPLAY_WIDTH * r + c]
                THEN 1 ELSE 0]_vars

\* The glyph 1 drawn over the glyph 0 at (0, 0): the flag is set, the pixels
\* both glyphs have are off and the pixels only one has are on.
C20_Witness ==
    /\ HasRun /\ instr = 53253 /\ cpu.I = 85
    /\ Len(hist) = 2 /\ hist[1].instr = 41045
    /\ cpu.V[CARRY_FLAG] = 1
    /\ ~screen[2] /\ screen[0] /\ screen[DISPLAY_WIDTH + 1]

\* C21: after 8XY4, 8XY5 or 8XY7 with X = F, VF holds the flag (carry, or
\* not-borrow), 0 or 1, not the arithmetic result; a and b are VF and VY
\* before.
C21_FlagWrittenLast ==
    [][(Ran /\ FIRST_NIBBLE(instr') = 8 /\ FOURTH_NIBBLE(instr') \in {4, 5, 7}
            /\ SECOND_NIBBLE(instr') = CARRY_FLAG) =>
        LET a == cpu.V[CARRY_FLAG]
            b == cpu.V[THIRD_NIBBLE(instr')]
            op == FOURTH_NIBBLE(instr')
            flag == IF op = 4 THEN a + b > 255
                    ELSE IF op = 5 THEN a > b
                    ELSE b > a
        IN cpu'.V[CARRY_FLAG] = IF flag THEN 1 ELSE 0]_vars

\* Between the two states no instruction ran: PC, SP, I, the stack, the V
\* registers, the memory and the framebuffer are the same.
NothingExecuted ==
    /\ instr' = NoInstr
    /\ cpu'.PC = cpu.PC /\ cpu'.SP = cpu.SP /\ cpu'.I = cpu.I
    /\ cpu'.stack = cpu.stack /\ cpu'.V = cpu.V
    /\ memory' = memory
    /\ screen' = screen
    /\ hist' = hist

\* C22: while the status is WAITING_FOR_KEY every step that is not the
\* delivery of a key-down (the start of a tick, an event, the end of the tick)
\* executes nothing and leaves the status; and two executed instructions never
\* belong to one tick.
C22_WaitingTickFrame ==
    /\ [](Len(hist) = 2 => hist[1].tick < hist[2].tick)
    /\ [][currentStatuts = "WAITING_FOR_KEY" =>
            /\ (pc = "loop" /\ pc' = "poll") => NothingExecuted
            /\ (pc = "poll" /\ pc' = "loop") => NothingExecuted
            /\ \A e \in Events :
                  (e.type # "SDL_KEYDOWN" /\ Deliver(e)) =>
                      /\ NothingExecuted
                      /\ currentStatuts' = "WAITING_FOR_KEY"]_vars

\* A whole tick has passed in WAITING_FOR_KEY: the sound timer went down and
\* the program counter is where FX0A left it.
C22_Witness ==
    /\ currentStatuts = "WAITING_FOR_KEY" /\ pc = "loop" /\ instr = NoInstr
    /\ hist # << >>
    /\ LET last == hist[Len(hist)] IN
          /\ IsF(last.instr, 10)
          /\ ticks > last.tick
          /\ cpu.soundTimer < last.stOut
          /\ cpu.PC = last.pcOut

\* The word is EX9E or EXA1.
IsKeyQuery(word) == FIRST_NIBBLE(word) = 14 /\ LSB(word) \in {158, 161}

\* C23: EX9E and EXA1 query the keypad with a VX in 0..15 only, and a key
\* event presses or releases an index in 0..15 only: no Keyboard method is
\* given a key it does not have.
C23_KeypadIndexInRange ==
    [][/\ (Ran /\ IsKeyQuery(instr')) =>
             /\ KeyInRange(cpu.V[SECOND_NIBBLE(instr')])
             /\ process'.code # EXIT_ABORT
       /\ \A e \in Events :
             Deliver(e) =>
                 /\ process'.code # EXIT_ABORT
                 /\ DOMAIN keyboard' = 0..(KEYBOARD_SIZE - 1)
                 /\ \A k \in DOMAIN keyboard :
                       keyboard'[k] # keyboard[k] =>
                           IsHexSym(e.sym) /\ k = HexValue(e.sym)]_vars

\* The word is 00E0 or DXYN.
MutatesScreen(word) == word = 224 \/ IsDraw(word)

\* C24: the framebuffer is presented in a tick exactly when the tick executed
\* 00E0 or DXYN, the instructions that set shouldRedraw, and shouldRedraw is
\* false whenever the loop is between instructions, also on entering
\* WAITING_FOR_KEY.
C24_RedrawFlag ==
    process.alive =>
        /\ ~shouldRedraw
        /\ probe.presented <=> (instr # NoInstr /\ MutatesScreen(instr))

\* 00E0 has cleared a screen that showed a glyph; the empty screen was
\* presented and the flag is down again.
C24_Witness ==
    /\ HasRun /\ process.alive /\ instr = 224
    /\ Len(hist) = 2 /\ hist[2].litIn # {} /\ Lit(screen) = {}
    /\ probe.presented /\ ~shouldRedraw

\* C25: the status starts as RUNNING and changes only from RUNNING to
\* WAITING_FOR_KEY by executing FX0A, from WAITING_FOR_KEY to RUNNING by a
\* key-down, and to STOPPED by a quit; it is never PAUSED and STOPPED is never
\* left.
C25_DriverTransitions ==
    /\ currentStatuts = "RUNNING"
    /\ [](currentStatuts \in {"RUNNING", "WAITING_FOR_KEY", "STOPPED"})
    /\ [][currentStatuts' # currentStatuts =>
            \/ /\ currentStatuts = "RUNNING"
               /\ currentStatuts' = "WAITING_FOR_KEY"
               /\ Ran /\ IsF(instr', 10)
            \/ /\ currentStatuts = "WAITING_FOR_KEY"
               /\ currentStatuts' = "RUNNING"
               /\ \E e \in Events : e.type = "SDL_KEYDOWN" /\ Deliver(e)
            \/ /\ currentStatuts # "STOPPED"
               /\ currentStatuts' = "STOPPED"
               /\ \E e \in Events : IsQuit(e) /\ Deliver(e)]_vars

\* A key-down has ended a wait: the status is RUNNING again in the tick after
\* the one that executed FX0A, before anything else has run.
C25_Witness ==
    /\ currentStatuts = "RUNNING" /\ pc = "poll" /\ instr = NoInstr
    /\ hist # << >> /\ IsF(hist[Len(hist)].instr, 10)
    /\ destinationKeyRegister = {}

\* C26: a destination register is remembered exactly while the status is
\* WAITING_FOR_KEY, and it is one of the registers 0..15; a key-down that
\* arrives while RUNNING writes no V register.
C26_DestinationIffWaiting ==
    /\ [](/\ destinationKeyRegister # {} <=> currentStatuts = "WAITING_FOR_KEY"
          /\ \A r \in destinationKeyRegister : r \in 0..(NUMBER_OF_V_REGISTERS - 1)
          /\ Cardinality(destinationKeyRegister) <= 1)
    /\ [][currentStatuts = "RUNNING" =>
            \A e \in Events :
                (e.type = "SDL_KEYDOWN" /\ Deliver(e)) =>
                    /\ cpu'.V = cpu.V
                    /\ destinationKeyRegister' = {}
                    /\ currentStatuts' = "RUNNING"]_vars

\* The key 1 went down while RUNNING, and FX0A ran after it: V3 is pending,
\* the key is held and no register has been written.
C26_Witness ==
    /\ currentStatuts = "WAITING_FOR_KEY" /\ destinationKeyRegister = {3}
    /\ keyboard[1] /\ process.alive
    /\ \A r \in DOMAIN cpu.V : cpu.V[r] = 0

====
